---------------------------- MODULE Spec2Model ----------------------------
(***************************************************************************)
(* Model of tools/embedsrv.py (rpc2socks): the generator that embeds the   *)
(* service executables into cli/rpc2socks/embexe_data.py.                  *)
(*                                                                         *)
(* Byte strings and text are sequences of byte / ASCII code values.        *)
(*                                                                         *)
(* Three specifications share the module:                                  *)
(*   SpecEnc  bin2python, called repeatedly on one artifact                *)
(*   SpecGit  get_git_info, applied to the output of the two git queries   *)
(*   Spec     the run: check_dirs_and_files, get_git_info,                 *)
(*            generate_python_script, as sequenced by main                 *)
(***************************************************************************)
EXTENDS Integers, Sequences, FiniteSets, TLC

VARIABLES
    infile,     \* bin2python: the bytes infile.read() returns
    b2p,        \* bin2python: the frame of the call (pc and locals)
    ret,        \* bin2python: the tuple last returned, or None
    fields,     \* per compress flag: the size and checksum last returned
    git_proc,   \* get_git_info: what the two git commands exit with and print
    git_info,   \* get_git_info: the info returned or the exception raised, or None
    fs,         \* the run: the project directory as the run finds it
    context,    \* the run: the context namespace (a record that gains fields)
    pc,         \* the run: where main stands
    outfile,    \* the run: the output file, whether it exists and its chunks in order
    reads,      \* the run: the artifacts read and encoded so far, in order
    printed,    \* the run: what main printed on stdout
    exit        \* the run: None while running, then how the process ended

encVars == <<infile, b2p, ret, fields>>

gitVars == <<git_proc, git_info>>

runVars == <<fs, context, pc, outfile, reads, printed, exit>>

vars == <<infile, b2p, ret, fields, git_proc, git_info,
          fs, context, pc, outfile, reads, printed, exit>>

None == [none |-> TRUE]

-----------------------------------------------------------------------------
(* Bounds of the model *)

\* longest artifact drawn
MaxArtifactLen == 3

\* widest columns argument drawn
MaxColumns == 4

\* byte values the artifacts are drawn from ("A", "B" and 0xff)
ArtifactBytes == {65, 66, 255}

\* most pieces the output of git describe is put together from
MaxDescribePieces == 3

-----------------------------------------------------------------------------
(* Sequence helpers *)

Min(a, b) == IF a < b THEN a ELSE b

Max(a, b) == IF a < b THEN b ELSE a

SeqsUpTo(S, n) == UNION {[1..k -> S] : k \in 0..n}

\* Python slice s[lo:hi] for 0 <= lo and 0 <= hi (hi clipped to len(s))
Slice(s, lo, hi) == SubSeq(s, lo + 1, Min(hi, Len(s)))

RECURSIVE Flatten(_)
Flatten(ss) == IF ss = <<>> THEN <<>> ELSE Head(ss) \o Flatten(Tail(ss))

RECURSIVE Sum(_)
Sum(s) == IF s = <<>> THEN 0 ELSE Head(s) + Sum(Tail(s))

-----------------------------------------------------------------------------
(* Library functions used by bin2python *)

\* hashlib.md5(data).hexdigest(): the digest is kept as a symbolic term over
\* the digested bytes (a collision-free hash)
md5_hexdigest(data) == <<"md5", data>>

\* the character of the base64 alphabet for a 6-bit value
b64_char(v) ==
    IF v < 26 THEN 65 + v
    ELSE IF v < 52 THEN 97 + (v - 26)
    ELSE IF v < 62 THEN 48 + (v - 52)
    ELSE IF v = 62 THEN 43
    ELSE 47

\* binascii.b2a_base64(data, newline=False)
RECURSIVE b2a_base64(_)
b2a_base64(data) ==
    IF Len(data) = 0 THEN <<>>
    ELSE IF Len(data) = 1 THEN
        << b64_char(data[1] \div 4), b64_char((data[1] % 4) * 16), 61, 61 >>
    ELSE IF Len(data) = 2 THEN
        << b64_char(data[1] \div 4),
           b64_char((data[1] % 4) * 16 + data[2] \div 16),
           b64_char((data[2] % 16) * 4), 61 >>
    ELSE
        << b64_char(data[1] \div 4),
           b64_char((data[1] % 4) * 16 + data[2] \div 16),
           b64_char((data[2] % 16) * 4 + data[3] \div 64),
           b64_char(data[3] % 64) >>
        \o b2a_base64(SubSeq(data, 4, Len(data)))

\* the bzip2 container: stream header "BZh9", block magic, end-of-stream magic
BZ_HEADER == <<66, 90, 104, 57>>

BZ_BLOCK == <<49, 65, 89, 38, 83, 89>>

BZ_EOS == <<23, 114, 69, 56, 80, 144>>

\* a 32-bit value as four big-endian bytes
be32(v) == << (v \div 16777216) % 256, (v \div 65536) % 256,
              (v \div 256) % 256, v % 256 >>

\* the stream checksum (stand-in for bzip2's CRC: 0 for the empty stream)
bz_crc(data) == be32((Sum(data) + Len(data)) % 16777216)

\* bz2.compress(data, compresslevel=9).  The empty input gives the 14 bytes
\* bzip2 gives (header, end-of-stream magic, zero CRC).  For a non-empty input
\* the container is kept (header, one block, end-of-stream magic, CRC) and the
\* block's Huffman-coded payload is stood in for by a length byte and the
\* bytes themselves.
bz2_compress(data) ==
    IF Len(data) = 0 THEN BZ_HEADER \o BZ_EOS \o bz_crc(data)
    ELSE BZ_HEADER \o BZ_BLOCK \o <<Len(data)>> \o data \o BZ_EOS \o bz_crc(data)

-----------------------------------------------------------------------------
(* bin2python *)

\* the defaults of the keyword arguments
DefaultColumns == 70

DefaultPrefix == <<32, 32, 32, 32>>

DefaultSep == <<10>>

\* b'b"' and b'"'
OpenQuote == <<98, 34>>

CloseQuote == <<34>>

\* line 34: data_size = len(data_raw)
b2p_data_size(data_raw) == Len(data_raw)

\* line 35: data_md5 = hashlib.md5(data_raw).hexdigest()
b2p_data_md5(data_raw) == md5_hexdigest(data_raw)

\* lines 37-39: the encoded text
b2p_data_b64(data_raw, compress) ==
    b2a_base64(IF compress THEN bz2_compress(data_raw) ELSE data_raw)

\* line 47: the loop's condition
b2p_loop_cond(f) == f.offset < Len(f.data_b64)

\* line 50: one framed line
b2p_line(f) ==
    f.prefix \o OpenQuote
        \o Slice(f.data_b64, f.offset, f.offset + f.columns) \o CloseQuote

\* mutant: the offset steps one character too far
b2p_next_offset_skip(f) == f.offset + f.columns + 1

\* line 52: offset += columns
b2p_next_offset(f) == f.offset + f.columns

\* mutant: the lines are joined without the separator
b2p_loop_body_nosep(f) ==
    [f EXCEPT !.pylines = f.pylines \o b2p_line(f),
              !.offset = b2p_next_offset(f)]

\* lines 48-52: the loop's body
b2p_loop_body(f) ==
    [f EXCEPT
        !.pylines = (IF f.pylines # <<>> THEN f.pylines \o f.sep ELSE f.pylines)
                        \o b2p_line(f),
        !.offset = b2p_next_offset(f)]

\* mutant: no line for an empty encoded text
b2p_pylines_noempty(f) == f.pylines

\* lines 54-55: the body returned
b2p_pylines(f) ==
    IF f.pylines = <<>> THEN f.prefix \o OpenQuote \o CloseQuote ELSE f.pylines

\* mutant: size and checksum taken after data_raw was reassigned
b2p_enter_late(data_raw, columns, prefix, sep, compress) ==
    LET data == IF compress THEN bz2_compress(data_raw) ELSE data_raw IN
    [pc |-> "loop", columns |-> columns, prefix |-> prefix, sep |-> sep,
     compress |-> compress,
     data_size |-> b2p_data_size(data),
     data_md5 |-> b2p_data_md5(data),
     data_b64 |-> b2p_data_b64(data_raw, compress),
     offset |-> 0,
     pylines |-> <<>>]

\* lines 33-45: the frame on entering the loop
b2p_enter(data_raw, columns, prefix, sep, compress) ==
    [pc |-> "loop", columns |-> columns, prefix |-> prefix, sep |-> sep,
     compress |-> compress,
     data_size |-> b2p_data_size(data_raw),
     data_md5 |-> b2p_data_md5(data_raw),
     data_b64 |-> b2p_data_b64(data_raw, compress),
     offset |-> 0,
     pylines |-> <<>>]

\* line 57: return pylines, data_size, data_md5
b2p_return(f) ==
    [pylines |-> b2p_pylines(f), data_size |-> f.data_size,
     data_md5 |-> f.data_md5]

RECURSIVE b2p_loop(_)
b2p_loop(f) == IF b2p_loop_cond(f) THEN b2p_loop(b2p_loop_body(f)) ELSE f

\* bin2python as a function of what infile.read() returns
bin2python(data_raw, columns, prefix, sep, compress) ==
    b2p_return(b2p_loop(b2p_enter(data_raw, columns, prefix, sep, compress)))

Idle == [pc |-> "idle"]

\* the widths drawn for the columns argument: the narrow ones and the default
ColumnsDrawn == (1..MaxColumns) \cup {DefaultColumns}

EncIdle ==
    /\ infile = <<>>
    /\ b2p = Idle
    /\ ret = None
    /\ fields = [c \in BOOLEAN |-> None]

GitIdle ==
    /\ git_proc = None
    /\ git_info = None

\* the output file: absent, or the chunks written to it in order
Absent == [exists |-> FALSE, chunks |-> <<>>]

File(chunks) == [exists |-> TRUE, chunks |-> chunks]

\* no run of main
RunIdle ==
    /\ fs = None
    /\ context = None
    /\ pc = "none"
    /\ outfile = Absent
    /\ reads = <<>>
    /\ printed = <<>>
    /\ exit = None

InitEnc ==
    /\ infile \in SeqsUpTo(ArtifactBytes, MaxArtifactLen)
    /\ b2p = Idle
    /\ ret = None
    /\ fields = [c \in BOOLEAN |-> None]
    /\ GitIdle
    /\ RunIdle

\* a call of bin2python(infile, columns=columns, compress=compress), up to
\* the loop
B2PCall ==
    /\ b2p.pc \in {"idle", "returned"}
    /\ \E columns \in ColumnsDrawn, compress \in BOOLEAN :
          b2p' = b2p_enter(infile, columns, DefaultPrefix, DefaultSep, compress)
    /\ ret' = None
    /\ UNCHANGED <<infile, fields, gitVars, runVars>>

\* one iteration of the while loop
B2PLoop ==
    /\ b2p.pc = "loop"
    /\ b2p_loop_cond(b2p)
    /\ b2p' = b2p_loop_body(b2p)
    /\ UNCHANGED <<infile, ret, fields, gitVars, runVars>>

\* the loop's exit and the return; the caller stores size and checksum
B2PReturn ==
    /\ b2p.pc = "loop"
    /\ ~b2p_loop_cond(b2p)
    /\ b2p' = [b2p EXCEPT !.pc = "returned"]
    /\ ret' = b2p_return(b2p)
    /\ fields' = [fields EXCEPT ![b2p.compress] =
                     [size |-> b2p_return(b2p).data_size,
                      md5 |-> b2p_return(b2p).data_md5]]
    /\ UNCHANGED <<infile, gitVars, runVars>>

NextEnc == B2PCall \/ B2PLoop \/ B2PReturn

\* the loop and the return are straight-line code: once called, bin2python
\* runs on
SpecEnc ==
    InitEnc /\ [][NextEnc]_vars /\ WF_vars(B2PLoop) /\ WF_vars(B2PReturn)

-----------------------------------------------------------------------------
(* run_and_check_output and get_git_info *)

\* the characters str.strip() takes for whitespace (those of ASCII)
Whitespace == {9, 10, 11, 12, 13, 28, 29, 30, 31, 32}

RECURSIVE lstrip(_)
lstrip(s) ==
    IF s # <<>> /\ Head(s) \in Whitespace THEN lstrip(Tail(s)) ELSE s

RECURSIVE rstrip(_)
rstrip(s) ==
    IF s # <<>> /\ s[Len(s)] \in Whitespace
    THEN rstrip(SubSeq(s, 1, Len(s) - 1))
    ELSE s

\* str.splitlines() for text whose only line boundary is "\n": no empty
\* last line after a final newline
RECURSIVE splitlines(_)
splitlines(text) ==
    IF text = <<>> THEN <<>>
    ELSE IF \A i \in 1..Len(text) : text[i] # 10 THEN <<text>>
    ELSE LET i == CHOOSE k \in 1..Len(text) :
                    text[k] = 10 /\ \A j \in 1..(k - 1) : text[j] # 10
         IN <<SubSeq(text, 1, i - 1)>>
                \o splitlines(SubSeq(text, i + 1, Len(text)))

\* an exception propagating out of a function
Raise(exc) == [raised |-> TRUE, exc |-> exc]

\* run_and_check_output(...) with the defaults (check, text, splitlines,
\* rstrip): proc is what the command exited with and printed
run_and_check_output(proc) ==
    IF proc.returncode # 0 THEN Raise("CalledProcessError")
    ELSE LET lines == splitlines(proc.stdout)
         IN [raised |-> FALSE,
             stdout |-> [i \in 1..Len(lines) |-> rstrip(lines[i])]]

\* run_and_check_output(...).stdout[0].lstrip()
first_line(proc) ==
    LET res == run_and_check_output(proc) IN
    IF res.raised THEN res
    ELSE IF res.stdout = <<>> THEN Raise("IndexError")
    ELSE [raised |-> FALSE, value |-> lstrip(res.stdout[1])]

\* str.endswith
endswith(s, suffix) ==
    /\ Len(suffix) <= Len(s)
    /\ SubSeq(s, Len(s) - Len(suffix) + 1, Len(s)) = suffix

\* Python's s[0:stop], stop of either sign
slice_to(s, stop) ==
    IF stop < 0 THEN SubSeq(s, 1, Max(Len(s) + stop, 0))
    ELSE SubSeq(s, 1, Min(stop, Len(s)))

\* the default of the dirty_suffix argument: "-dirty"
DirtySuffix == <<45, 100, 105, 114, 116, 121>>

\* the length the pattern of line 104 asks for
HashLen == 40

\* the character class of line 104 under re.A: [a-h\d]
hash_class(c) == (c >= 97 /\ c <= 104) \/ (c >= 48 /\ c <= 57)

\* re.fullmatch(r"^([a-h\d]{40})$", hash, re.A)
hash_fullmatch(h) ==
    /\ Len(h) = HashLen
    /\ \A i \in 1..Len(h) : hash_class(h[i])

\* mutant: the suffix is looked for anywhere in the description
git_dirty_contains(describe, dirty_suffix) ==
    \E i \in 1..(Len(describe) - Len(dirty_suffix) + 1) :
        SubSeq(describe, i, i + Len(dirty_suffix) - 1) = dirty_suffix

\* lines 95-99: dirty and the stored description
git_dirty(describe, dirty_suffix) == endswith(describe, dirty_suffix)

git_describe(describe, dirty_suffix) ==
    IF git_dirty(describe, dirty_suffix)
    THEN slice_to(describe, 0 - Len(dirty_suffix))
    ELSE describe

\* get_git_info: out.describe and out.revparse are what "git describe" and
\* "git rev-parse" exited with and printed
get_git_info(out, dirty_suffix) ==
    LET d == first_line(out.describe)
        h == first_line(out.revparse)
    IN IF d.raised THEN d
       ELSE IF h.raised THEN h
       ELSE IF ~hash_fullmatch(h.value) THEN Raise("RuntimeError")
       ELSE [raised |-> FALSE,
             describe |-> git_describe(d.value, dirty_suffix),
             dirty |-> git_dirty(d.value, dirty_suffix),
             hash |-> h.value]

\* the pieces the descriptions drawn are put together from:
\* "v", "-dirty", "-dirt", " "
DescribePieces == {<<118>>, DirtySuffix, <<45, 100, 105, 114, 116>>, <<32>>}

\* git describe --always prints a description, never an empty line
DescribeDrawn ==
    {Flatten(ps) : ps \in SeqsUpTo(DescribePieces, MaxDescribePieces)} \ {<<>>}

\* the characters the revisions drawn are made of: 0 9 a f h i A
HashChars == {48, 57, 97, 102, 104, 105, 65}

\* revisions of 39, 40 and 41 characters, all one character but for the
\* first or the last; and no output at all
HashDrawn ==
    {<<>>} \cup
    {[i \in 1..n |-> IF i = p THEN c1 ELSE c0] :
        n \in (HashLen - 1)..(HashLen + 1), p \in {1, HashLen},
        c0 \in HashChars, c1 \in HashChars}

\* what a git command may exit with and print: failure, or the text and a
\* newline
Procs(texts) ==
    {[returncode |-> 128, stdout |-> <<>>]}
        \cup {[returncode |-> 0, stdout |-> t \o <<10>>] : t \in texts}

InitGit ==
    /\ EncIdle
    /\ git_proc \in [describe : Procs(DescribeDrawn), revparse : Procs(HashDrawn)]
    /\ git_info = None
    /\ RunIdle

\* a call of get_git_info(repo_dir=...)
GetGitInfo ==
    /\ git_info = None
    /\ git_info' = get_git_info(git_proc, DirtySuffix)
    /\ RunIdle
    /\ UNCHANGED <<encVars, git_proc, runVars>>

NextGit == GetGitInfo

SpecGit == InitGit /\ [][NextGit]_vars

-----------------------------------------------------------------------------
(* The run: main, check_dirs_and_files, generate_python_script *)

\* the keys of INPUT_FILES, in the order of the dict
InputNames == <<"EXE32CON", "EXE64CON", "EXE32SVC", "EXE64SVC">>

\* os.path.basename of the values of INPUT_FILES
InputBasename ==
    [n \in {"EXE32CON", "EXE64CON", "EXE32SVC", "EXE64SVC"} |->
        CASE n = "EXE32CON" -> "rpc2socks32con.exe"
          [] n = "EXE64CON" -> "rpc2socks64con.exe"
          [] n = "EXE32SVC" -> "rpc2socks32svc.exe"
          [] n = "EXE64SVC" -> "rpc2socks64svc.exe"]

NameSet == {InputNames[i] : i \in 1..Len(InputNames)}

\* die(...): the message on stderr and sys.exit(1)
Die(msg) == [code |-> 1, by |-> "die", msg |-> msg]

\* an exception nothing catches: the traceback and exit status 1
Uncaught(exc) == [code |-> 1, by |-> exc]

\* main's return 0
Returned0 == [code |-> 0, by |-> "return"]

\* parse_args: the context it builds (ignoregit is set to True, line 204)
parse_args == [ignoregit |-> TRUE, repodir |-> "PROJECT_DIR",
               outfile |-> "OUTPUT_SCRIPT"]

\* a record with one more field, as an attribute set on a SimpleNamespace
With(rec, key, val) ==
    [k \in DOMAIN rec \cup {key} |-> IF k = key THEN val ELSE rec[k]]

\* mutant: the input files are not checked
check_dirs_and_files_noinputs(ctx, f) ==
    IF ~f.project_isdir THEN [died |-> TRUE, exit |-> Die("project dir not found:")]
    ELSE IF ~ctx.ignoregit /\ ~f.git_isdir
        THEN [died |-> TRUE, exit |-> Die("project dir not a git repository?")]
    ELSE IF ~f.out_isdir
        THEN [died |-> TRUE, exit |-> Die("parent dir of output file not found:")]
    ELSE [died |-> FALSE,
          context |-> With(ctx, "is_git_repo", ~ctx.ignoregit)]

\* check_dirs_and_files: the context it returns, or the die() it ends in
check_dirs_and_files(ctx, f) ==
    LET missing == {i \in 1..Len(InputNames) : f.input[InputNames[i]] = "missing"}
    IN
    IF ~f.project_isdir THEN [died |-> TRUE, exit |-> Die("project dir not found:")]
    ELSE IF ~ctx.ignoregit /\ ~f.git_isdir
        THEN [died |-> TRUE, exit |-> Die("project dir not a git repository?")]
    ELSE IF missing # {}
        THEN [died |-> TRUE, exit |-> Die("input file not found:")]
    ELSE IF ~f.out_isdir
        THEN [died |-> TRUE, exit |-> Die("parent dir of output file not found:")]
    ELSE [died |-> FALSE,
          context |-> With(ctx, "is_git_repo", ~ctx.ignoregit)]

\* mutant: an empty string literal when there is no revision
gen_git_commit_empty(ctx) ==
    IF ~ctx.is_git_repo
    THEN [literal |-> "str", value |-> <<>>,
          comment |-> "# CAUTION: repo possibly dirty"]
    ELSE [literal |-> "str", value |-> ctx.git_info.hash,
          comment |-> "# CAUTION: repo possibly dirty"]

\* lines 145-149: the text after "GIT_COMMIT = "
gen_git_commit(ctx) ==
    IF ~ctx.is_git_repo THEN [literal |-> "None"]
    ELSE [literal |-> "str", value |-> ctx.git_info.hash,
          comment |-> "# CAUTION: repo possibly dirty"]

\* lines 153-164: the preamble written
gen_preamble(ctx) ==
    [kind |-> "preamble", GENERATED_AT |-> "now_str",
     GIT_COMMIT |-> gen_git_commit(ctx)]

\* lines 168-180: the three writes for one artifact
gen_block(name, data) ==
    LET r == bin2python(data, DefaultColumns, DefaultPrefix, DefaultSep, TRUE)
    IN << [kind |-> "header", label |-> InputBasename[name], name |-> name,
           SIZE |-> r.data_size, MD5 |-> r.data_md5],
          [kind |-> "body", DATA |-> r.pylines],
          [kind |-> "close"] >>

\* the contents the input files are drawn with
ContentsDrawn == {<<>>, <<65, 66>>}

\* the project directory as the run may find it: everything lies under it
FsDrawn ==
    {f \in [project_isdir : BOOLEAN, git_isdir : BOOLEAN, out_isdir : BOOLEAN,
            input : [NameSet -> {"missing", "unreadable", "ok"}],
            content : [NameSet -> ContentsDrawn]] :
        /\ ~f.project_isdir =>
              /\ ~f.git_isdir /\ ~f.out_isdir
              /\ \A n \in NameSet : f.input[n] = "missing"
        /\ \A n \in NameSet : f.input[n] # "ok" => f.content[n] = <<>>}

\* what the two git commands print in the runs that ask them
GitDrawn ==
    [describe : Procs({<<118>>, <<118>> \o DirtySuffix}),
     revparse : Procs({[i \in 1..HashLen |-> 97], [i \in 1..HashLen |-> 104],
                       [i \in 1..(HashLen - 1) |-> 97]})]

\* main as shipped: parse_args runs first
InitMain ==
    /\ pc = "parse_args"
    /\ context = None
    /\ git_proc = None

\* main from line 216 on, with the context the disabled --ignoregit option
\* (lines 189-191, 204) would build when it is not given
InitGitRun ==
    /\ pc = "check_dirs_and_files"
    /\ context = [parse_args EXCEPT !.ignoregit = FALSE]
    /\ git_proc \in GitDrawn

Init ==
    /\ EncIdle
    /\ git_info = None
    /\ fs \in FsDrawn
    /\ outfile \in (IF fs.out_isdir THEN {Absent, File(<<[kind |-> "old"]>>)}
                    ELSE {Absent})
    /\ reads = <<>>
    /\ printed = <<>>
    /\ exit = None
    /\ (InitMain \/ InitGitRun)

Running == exit = None

\* line 214
ParseArgs ==
    /\ Running /\ pc = "parse_args"
    /\ context' = parse_args
    /\ pc' = "check_dirs_and_files"
    /\ UNCHANGED <<encVars, gitVars, fs, outfile, reads, printed, exit>>

\* line 216, the checks passing
CheckDirsAndFiles ==
    /\ Running /\ pc = "check_dirs_and_files"
    /\ ~check_dirs_and_files(context, fs).died
    /\ context' = check_dirs_and_files(context, fs).context
    /\ pc' = IF context'.is_git_repo THEN "get_git_info" ELSE "generate"
    /\ UNCHANGED <<encVars, gitVars, fs, outfile, reads, printed, exit>>

\* line 216, a check ending in die()
CheckDirsAndFilesDie ==
    /\ Running /\ pc = "check_dirs_and_files"
    /\ check_dirs_and_files(context, fs).died
    /\ exit' = check_dirs_and_files(context, fs).exit
    /\ UNCHANGED <<encVars, gitVars, fs, context, pc, outfile, reads, printed>>

\* lines 217-218, get_git_info returning
MainGetGitInfo ==
    /\ Running /\ pc = "get_git_info"
    /\ git_info' = get_git_info(git_proc, DirtySuffix)
    /\ ~git_info'.raised
    /\ context' = With(context, "git_info", git_info')
    /\ pc' = "generate"
    /\ UNCHANGED <<encVars, git_proc, fs, outfile, reads, printed, exit>>

\* lines 217-218, get_git_info raising
MainGetGitInfoRaise ==
    /\ Running /\ pc = "get_git_info"
    /\ git_info' = get_git_info(git_proc, DirtySuffix)
    /\ git_info'.raised
    /\ exit' = Uncaught(git_info'.exc)
    /\ UNCHANGED <<encVars, git_proc, fs, context, pc, outfile, reads, printed>>

\* lines 143-152: open(context.outfile, mode="wb") creates or truncates
GenOpen ==
    /\ Running /\ pc = "generate"
    /\ outfile' = File(<<>>)
    /\ pc' = "preamble"
    /\ UNCHANGED <<encVars, gitVars, fs, context, reads, printed, exit>>

\* lines 153-164
GenPreamble ==
    /\ Running /\ pc = "preamble"
    /\ outfile' = File(Append(outfile.chunks, gen_preamble(context)))
    /\ pc' = "artifacts"
    /\ UNCHANGED <<encVars, gitVars, fs, context, reads, printed, exit>>

\* mutant: the mapping walked from its last entry
NextName_reversed == InputNames[Len(InputNames) - Len(reads)]

\* line 166: the item the loop over INPUT_FILES.items() stands at
NextName == InputNames[Len(reads) + 1]

\* lines 166-180, one artifact read, encoded and written
GenArtifact ==
    /\ Running /\ pc = "artifacts"
    /\ fs.input[NextName] = "ok"
    /\ reads' = Append(reads, NextName)
    /\ outfile' = File(outfile.chunks \o gen_block(NextName, fs.content[NextName]))
    /\ pc' = IF Len(reads') < Len(InputNames) THEN "artifacts" ELSE "generated"
    /\ UNCHANGED <<encVars, gitVars, fs, context, printed, exit>>

\* lines 167-168, open() or read() raising OSError: the with statement closes
\* the output file with what was written and the exception leaves main
GenArtifactRaise ==
    /\ Running /\ pc = "artifacts"
    /\ fs.input[NextName] # "ok"
    /\ exit' = Uncaught("OSError")
    /\ UNCHANGED <<encVars, gitVars, fs, context, pc, outfile, reads, printed>>

\* lines 221-223
MainReturn ==
    /\ Running /\ pc = "generated"
    /\ printed' = Append(printed, "generated")
    /\ exit' = Returned0
    /\ UNCHANGED <<encVars, gitVars, fs, context, pc, outfile, reads>>

Next ==
    \/ ParseArgs
    \/ CheckDirsAndFiles
    \/ CheckDirsAndFilesDie
    \/ MainGetGitInfo
    \/ MainGetGitInfoRaise
    \/ GenOpen
    \/ GenPreamble
    \/ GenArtifact
    \/ GenArtifactRaise
    \/ MainReturn

Spec == Init /\ [][Next]_vars

-----------------------------------------------------------------------------
(* What a consumer of the generated module does with a framed body *)

Bad == <<-1>>

\* text split at every occurrence of the separator byte
RECURSIVE SplitAt(_, _)
SplitAt(text, b) ==
    IF \A i \in 1..Len(text) : text[i] # b THEN <<text>>
    ELSE LET i == CHOOSE k \in 1..Len(text) :
                    text[k] = b /\ \A j \in 1..(k - 1) : text[j] # b
         IN <<SubSeq(text, 1, i - 1)>> \o SplitAt(SubSeq(text, i + 1, Len(text)), b)

\* the segment of a line: the line less its prefix and its b" " delimiters
Segment(line, prefix) ==
    LET p == Len(prefix) IN
    IF /\ Len(line) >= p + 3
       /\ SubSeq(line, 1, p) = prefix
       /\ SubSeq(line, p + 1, p + 2) = OpenQuote
       /\ SubSeq(line, Len(line), Len(line)) = CloseQuote
    THEN SubSeq(line, p + 3, Len(line) - 1)
    ELSE Bad

Segments(pylines, prefix, sep) ==
    LET lines == SplitAt(pylines, sep[1])
    IN [i \in 1..Len(lines) |-> Segment(lines[i], prefix)]

\* the 6-bit value of a character of the base64 alphabet (-1: none)
b64_value(c) ==
    IF c >= 65 /\ c <= 90 THEN c - 65
    ELSE IF c >= 97 /\ c <= 122 THEN c - 97 + 26
    ELSE IF c >= 48 /\ c <= 57 THEN c - 48 + 52
    ELSE IF c = 43 THEN 62
    ELSE IF c = 47 THEN 63
    ELSE -1

\* binascii.a2b_base64
RECURSIVE a2b_base64(_)
a2b_base64(text) ==
    IF Len(text) = 0 THEN <<>>
    ELSE IF Len(text) < 4 \/ b64_value(text[1]) < 0 \/ b64_value(text[2]) < 0
    THEN Bad
    ELSE
        LET v1 == b64_value(text[1])
            v2 == b64_value(text[2])
            v3 == b64_value(text[3])
            v4 == b64_value(text[4])
            b1 == v1 * 4 + v2 \div 16
            b2 == (v2 % 16) * 16 + v3 \div 4
            b3 == (v3 % 4) * 64 + v4
        IN IF text[3] = 61 /\ text[4] = 61 /\ Len(text) = 4 THEN <<b1>>
           ELSE IF v3 >= 0 /\ text[4] = 61 /\ Len(text) = 4 THEN <<b1, b2>>
           ELSE IF v3 >= 0 /\ v4 >= 0
           THEN LET rest == a2b_base64(SubSeq(text, 5, Len(text)))
                IN IF rest = Bad THEN Bad ELSE <<b1, b2, b3>> \o rest
           ELSE Bad

\* bz2.decompress, of the container bz2_compress writes
bz2_decompress(stream) ==
    IF Len(stream) < 14 \/ SubSeq(stream, 1, 4) # BZ_HEADER THEN Bad
    ELSE IF SubSeq(stream, 5, 10) = BZ_EOS THEN
        (IF stream = BZ_HEADER \o BZ_EOS \o bz_crc(<<>>) THEN <<>> ELSE Bad)
    ELSE IF SubSeq(stream, 5, 10) # BZ_BLOCK \/ Len(stream) # 21 + stream[11]
    THEN Bad
    ELSE LET data == SubSeq(stream, 12, 11 + stream[11])
         IN IF stream = bz2_compress(data) THEN data ELSE Bad

\* the bytes a consumer recovers from a framed body
Decode(pylines, prefix, sep, compressed) ==
    LET segs == Segments(pylines, prefix, sep)
        text == Flatten(segs)
        raw == IF \E i \in 1..Len(segs) : segs[i] = Bad THEN Bad
               ELSE a2b_base64(text)
    IN IF raw = Bad THEN Bad
       ELSE IF compressed THEN bz2_decompress(raw)
       ELSE raw

Returned == b2p.pc = "returned"

CeilDiv(n, c) == (n + c - 1) \div c

EmptyLiteral(prefix) == prefix \o OpenQuote \o CloseQuote

-----------------------------------------------------------------------------
(* Claims about bin2python, checked under SpecEnc *)

\* C3 as stated: encoding a zero-byte artifact returns, for either value of
\* compress, exactly one line, and that line is the empty literal.
C3_EmptyAlwaysEmptyLiteral ==
    (Returned /\ infile = <<>>) => ret.pylines = EmptyLiteral(b2p.prefix)

\* C3 amended: encoding a zero-byte artifact never returns zero lines; with
\* compress false the body is exactly one line, the empty literal; with
\* compress true the body is ceil(20 / columns) lines that carry the 20
\* characters encoding the compressed stream of the empty input (one line at
\* the default width), never the empty literal.
C3_EmptyArtifactBody ==
    (Returned /\ infile = <<>>) =>
        LET segs == Segments(ret.pylines, b2p.prefix, b2p.sep) IN
        /\ Len(segs) >= 1
        /\ ~b2p.compress =>
              /\ ret.pylines = EmptyLiteral(b2p.prefix)
              /\ segs = << <<>> >>
        /\ b2p.compress =>
              /\ Len(Flatten(segs)) = 20
              /\ Len(segs) = CeilDiv(20, b2p.columns)
              /\ \A i \in 1..Len(segs) : segs[i] # <<>> /\ segs[i] # Bad
              /\ ret.pylines # EmptyLiteral(b2p.prefix)

\* the default call on the empty artifact: one line, QlpoORdyRThQkAAAAAA=
C3_Witness ==
    /\ Returned /\ infile = <<>>
    /\ b2p.compress /\ b2p.columns = DefaultColumns
    /\ Segments(ret.pylines, b2p.prefix, b2p.sep) =
          << <<81, 108, 112, 111, 79, 82, 100, 121, 82, 84, 104, 81, 107,
               65, 65, 65, 65, 65, 65, 61>> >>

\* C4: stripping prefix and delimiters from each returned line, concatenating
\* the segments, base64-decoding and (when compress was true) decompressing
\* reproduces the artifact, and the checksum recomputed over the result is
\* the checksum returned.
C4_RoundTrip ==
    Returned =>
        LET back == Decode(ret.pylines, b2p.prefix, b2p.sep, b2p.compress) IN
        /\ back = infile
        /\ md5_hexdigest(back) = ret.data_md5

C4_Witness ==
    /\ Returned /\ Len(infile) = 3 /\ b2p.compress /\ b2p.columns = 3
    /\ Len(Segments(ret.pylines, b2p.prefix, b2p.sep)) > 1
    /\ Decode(ret.pylines, b2p.prefix, b2p.sep, TRUE) = infile

\* C5: the size and checksum returned are the length and digest of the
\* original bytes, the same with compress true and compress false.
C5_SizeAndChecksumOfOriginal ==
    /\ \A c \in BOOLEAN :
          fields[c] # None =>
              /\ fields[c].size = Len(infile)
              /\ fields[c].md5 = md5_hexdigest(infile)
    /\ (fields[TRUE] # None /\ fields[FALSE] # None) =>
          fields[TRUE] = fields[FALSE]
    /\ Returned => (ret.data_size = Len(infile)
                    /\ ret.data_md5 = md5_hexdigest(infile))

C5_Witness ==
    /\ Returned /\ infile # <<>>
    /\ fields[TRUE] # None /\ fields[FALSE] # None
    /\ fields[TRUE].size = Len(infile)
    /\ ret.pylines # bin2python(infile, b2p.columns, b2p.prefix, b2p.sep,
                                ~b2p.compress).pylines

\* C9 (framing): for an encoded text of n > 0 characters and width c the body
\* returned is ceil(n/c) lines, each prefix, b", a segment and a closing
\* quote; every segment but the last has c characters and the last 1..c; the
\* segments concatenated are the encoded text; one separator joins two lines
\* and none leads or trails.
C9_FramingInv ==
    (Returned /\ Len(b2p.data_b64) > 0) =>
        LET n == Len(b2p.data_b64)
            c == b2p.columns
            segs == Segments(ret.pylines, b2p.prefix, b2p.sep)
            k == Len(segs)
        IN /\ k = CeilDiv(n, c)
           /\ \A i \in 1..k : segs[i] # Bad
           /\ \A i \in 1..(k - 1) : Len(segs[i]) = c
           /\ Len(segs[k]) >= 1 /\ Len(segs[k]) <= c
           /\ Flatten(segs) = b2p.data_b64
           /\ Len(ret.pylines) = n + k * (Len(b2p.prefix) + 3) + (k - 1)

\* C9: the framing loop terminates, and returns the framing above.
C9_Framing ==
    /\ []C9_FramingInv
    /\ (b2p.pc = "loop") ~> Returned

\* bytes AB, compression off, width 4: the single segment QUI=
C9_Witness ==
    /\ Returned /\ infile = <<65, 66>> /\ ~b2p.compress /\ b2p.columns = 4
    /\ Segments(ret.pylines, b2p.prefix, b2p.sep) = << <<81, 85, 73, 61>> >>
    /\ ret.data_size = 2

-----------------------------------------------------------------------------
(* Claims about get_git_info, checked under SpecGit *)

Called == git_info # None

\* 40 characters of 0-9 a-f
IsHex40(h) ==
    /\ Len(h) = 40
    /\ \A i \in 1..Len(h) : (h[i] >= 48 /\ h[i] <= 57) \/ (h[i] >= 97 /\ h[i] <= 102)

\* the string a query returned, when its command succeeded and printed a line
QueryReturned(proc) == ~first_line(proc).raised

\* C2: for every string returned by the full-revision query that is not 40
\* characters of 0-9a-f, get_git_info raises; no such string becomes the
\* revision.
C2_NonHexRevisionRaises ==
    (Called /\ QueryReturned(git_proc.revparse)
        /\ ~IsHex40(first_line(git_proc.revparse).value))
    => git_info.raised

\* s is what remains of d with one trailing occurrence of suffix removed
StrippedOnce(d, suffix, s) == d = s \o suffix

\* C7: if the descriptor d the describe query returned ends with the dirty
\* suffix, get_git_info reports dirty = true and stores d less that one
\* trailing occurrence; otherwise dirty = false and d is stored unchanged.
C7_DirtySuffix ==
    (Called /\ ~git_info.raised) =>
        LET d == first_line(git_proc.describe).value
            ends == \E k \in 0..Len(d) : StrippedOnce(d, DirtySuffix, SubSeq(d, 1, k))
        IN /\ ends => (git_info.dirty /\ StrippedOnce(d, DirtySuffix, git_info.describe))
           /\ ~ends => (~git_info.dirty /\ git_info.describe = d)

\* "v-dirty-dirty": dirty, and "v-dirty" is stored
C7_Witness ==
    /\ Called /\ ~git_info.raised
    /\ first_line(git_proc.describe).value = <<118>> \o DirtySuffix \o DirtySuffix
    /\ git_info.dirty
    /\ git_info.describe = <<118>> \o DirtySuffix

-----------------------------------------------------------------------------
(* Claims about the run, checked under Spec *)

Exited == exit # None

\* the output file as the run found it: absent, or the earlier output
Untouched == outfile \in {Absent, File(<<[kind |-> "old"]>>)}

ChunksOf(kind) == {i \in 1..Len(outfile.chunks) : outfile.chunks[i].kind = kind}

SomeInputMissing == \E n \in NameSet : fs.input[n] = "missing"

\* C1: if opening or reading an input artifact fails during generation, the
\* output file has not been created or truncated and holds neither the
\* preamble nor any artifact block.
C1_NoPartialOutput ==
    (Exited /\ exit.by = "OSError") => Untouched

\* C6: where is_git_repo is false the git queries are never issued and the
\* preamble carries GIT_COMMIT = None; the field is never left out and never
\* an empty string; a quoted revision is written only when is_git_repo is
\* true and the revision passed the validation.
C6_RevisionField ==
    /\ ("is_git_repo" \in DOMAIN context /\ ~context.is_git_repo) =>
          /\ git_info = None
          /\ \A i \in ChunksOf("preamble") :
                outfile.chunks[i].GIT_COMMIT = [literal |-> "None"]
    /\ pc \in {"artifacts", "generated"} => ChunksOf("preamble") # {}
    /\ \A i \in ChunksOf("preamble") :
          LET gc == outfile.chunks[i].GIT_COMMIT IN
          /\ gc.literal \in {"None", "str"}
          /\ gc.literal = "str" =>
                /\ gc.value # <<>>
                /\ context.is_git_repo
                /\ git_info # None /\ ~git_info.raised
                /\ gc.value = git_info.hash
                /\ hash_fullmatch(gc.value)

\* main as shipped, the document written: GIT_COMMIT = None, git never asked
C6_Witness ==
    /\ Exited /\ exit.code = 0
    /\ context.ignoregit /\ ~context.is_git_repo
    /\ git_info = None
    /\ outfile.chunks[1].GIT_COMMIT = [literal |-> "None"]

\* C8: the checks and the provenance are done before the output file is
\* opened and before an artifact is read; a run with an input file or the
\* output directory missing exits non-zero, nothing encoded, nothing written.
C8_ChecksFirst ==
    /\ pc \in {"parse_args", "check_dirs_and_files", "get_git_info"} =>
          (Untouched /\ reads = <<>>)
    /\ (~Untouched \/ reads # <<>>) =>
          /\ "is_git_repo" \in DOMAIN context
          /\ fs.project_isdir /\ fs.out_isdir /\ ~SomeInputMissing
          /\ context.is_git_repo =>
                ("git_info" \in DOMAIN context /\ ~context.git_info.raised)
    /\ (SomeInputMissing \/ ~fs.out_isdir) =>
          /\ pc \in {"parse_args", "check_dirs_and_files"}
          /\ Exited => (exit.code # 0 /\ Untouched /\ reads = <<>>)

\* the last input file missing, an earlier output in place: die(), output kept
C8_Witness ==
    /\ Exited /\ exit = Die("input file not found:")
    /\ fs.input["EXE64SVC"] = "missing"
    /\ \A n \in NameSet \ {"EXE64SVC"} : fs.input[n] = "ok"
    /\ outfile = File(<<[kind |-> "old"]>>)
    /\ reads = <<>>

\* C10: a run that completes holds the preamble once and first, then one
\* block per entry of the mapping in its order, each artifact read and
\* encoded once, header before body before closing parenthesis, no block
\* inside another; "generated" is printed only after the last block.
C10_DocumentOrder ==
    LET N == Len(InputNames)
        ch == outfile.chunks
    IN
    /\ (Exited /\ exit.code = 0) =>
          /\ printed = <<"generated">>
          /\ reads = InputNames
          /\ Len(ch) = 1 + 3 * N
          /\ ch[1].kind = "preamble"
          /\ \A i \in 1..N :
                /\ ch[3 * i - 1].kind = "header"
                /\ ch[3 * i - 1].name = InputNames[i]
                /\ ch[3 * i - 1].label = InputBasename[InputNames[i]]
                /\ ch[3 * i - 1].SIZE = Len(fs.content[InputNames[i]])
                /\ ch[3 * i - 1].MD5 = md5_hexdigest(fs.content[InputNames[i]])
                /\ ch[3 * i].kind = "body"
                /\ Decode(ch[3 * i].DATA, DefaultPrefix, DefaultSep, TRUE)
                      = fs.content[InputNames[i]]
                /\ ch[3 * i + 1].kind = "close"
    /\ printed # <<>> =>
          (pc = "generated" /\ Len(ch) = 1 + 3 * N /\ ch[3 * N + 1].kind = "close")

\* a completed run over artifacts that differ
C10_Witness ==
    /\ Exited /\ exit.code = 0
    /\ fs.content["EXE32CON"] = <<>> /\ fs.content["EXE64CON"] = <<65, 66>>
    /\ fs.content["EXE32SVC"] = <<65, 66>> /\ fs.content["EXE64SVC"] = <<>>
    /\ Len(outfile.chunks) = 13

=============================================================================
